---- MODULE Spec2Model ----
(***************************************************************************)
(* Model of Sample/UseAutelIrSdkSample/UseAutelIrSdkSample/main.cpp: the   *)
(* driver that calls GetIrPhotoTempInfo of the Autel IR temperature parser *)
(* SDK once and prints a one-line verdict.                                 *)
(*                                                                         *)
(* The driver is modelled statement by statement (pc names the line of     *)
(* main.cpp about to run).  The parser is a binary library; its effect on  *)
(* the three receivers is modelled from its interface contract.            *)
(* Strings that the claims inspect character by character (the two printf  *)
(* formats) are sequences of one-character strings.                        *)
(* stdout holds the characters handed to the C stream, before any          *)
(* platform text-mode translation of the stream.                           *)
(***************************************************************************)
EXTENDS Integers, Sequences, FiniteSets, TLC

VARIABLES pc, argc, argv, filePath, statInfo, mapIrInfo, vecTempArray,
          calls, status, stdout, stderr, retval, exitCode, trace

vars == <<pc, argc, argv, filePath, statInfo, mapIrInfo, vecTempArray,
          calls, status, stdout, stderr, retval, exitCode, trace>>

(* ---------------------------- bounds ----------------------------------- *)

\* argc ranges over 1..MaxArgc
MaxArgc == 3
\* the parser's status ranges over -MaxStatus..MaxStatus
MaxStatus == 2
\* indeterminate bit patterns of the uninitialised statInfo, and the number
\* of rows a failed parse may leave behind, range over 0..MaxGarbage
MaxGarbage == 2

(* ------------------------ program constants ---------------------------- *)

\* const char *filePath = "../test/IRX_0001_south.jpg";
FILE_PATH == "../test/IRX_0001_south.jpg"
\* second and third argument of the call
WIDTH == 640
HEIGHT == 512
\* printf("parse ok.\r\n")
OK_FMT == <<"p","a","r","s","e"," ","o","k",".","\r","\n">>
\* printf("parse fail.\r\n")
FAIL_FMT == <<"p","a","r","s","e"," ","f","a","i","l",".","\r","\n">>

\* command-line words other than the program name
ArgWords == {"other.jpg", "-v"}
\* keys the parser may put in the metadata map
MetaKeys == {"emissivity", "distance"}

(* --------------------------- helpers ----------------------------------- *)

\* an event of the run: who did what to which object
Ev(actor, op, obj) == [actor |-> actor, op |-> op, obj |-> obj]

Receivers == {"statInfo", "mapIrInfo", "vecTempArray"}

\* printf with a format and no further arguments: ordinary characters are
\* copied to the stream, "%%" yields one "%"
RECURSIVE printf(_)
printf(fmt) ==
  IF fmt = <<>> THEN <<>>
  ELSE IF Head(fmt) = "%" /\ Len(fmt) >= 2 /\ fmt[2] = "%"
       THEN <<"%">> \o printf(Tail(Tail(fmt)))
       ELSE <<Head(fmt)>> \o printf(Tail(fmt))

\* a temperature field of h rows of w samples each, as the row lengths
Field(h, w) == [r \in 1..h |-> w]

(* ----------------------------- Init ------------------------------------ *)

Init ==
  /\ pc = "l7"
  /\ argc \in 1..MaxArgc
  /\ argv \in [1..argc -> ArgWords \cup {"sample.exe"}]
  /\ argv[1] = "sample.exe"
  /\ \A i \in 2..argc : argv[i] \in ArgWords
  /\ filePath = ""
  /\ statInfo = [tag |-> "none", bits |-> 0]
  /\ mapIrInfo = {}
  /\ vecTempArray = <<>>
  /\ calls = <<>>
  /\ status = <<>>
  /\ stdout = <<>>
  /\ stderr = <<>>
  /\ retval = <<>>
  /\ exitCode = <<>>
  /\ trace = <<>>

(* ------------------------ driver: main.cpp ----------------------------- *)

\* variant of line 7: the path is taken from the command line when one is
\* given
AssignFilePath_argv ==
  /\ pc = "l7"
  /\ filePath' = IF argc > 1 THEN argv[2] ELSE FILE_PATH
  /\ pc' = "l9"
  /\ UNCHANGED <<argc, argv, statInfo, mapIrInfo, vecTempArray, calls,
                 status, stdout, stderr, retval, exitCode, trace>>

\* line 7
AssignFilePath ==
  /\ pc = "l7"
  /\ filePath' = FILE_PATH
  /\ pc' = "l9"
  /\ UNCHANGED <<argc, argv, statInfo, mapIrInfo, vecTempArray, calls,
                 status, stdout, stderr, retval, exitCode, trace>>

\* line 9: TempStatInfo statInfo;  no initialiser, the contents are
\* indeterminate
DeclStatInfo ==
  /\ pc = "l9"
  /\ \E b \in 0..MaxGarbage : statInfo' = [tag |-> "indeterminate", bits |-> b]
  /\ trace' = Append(trace, Ev("driver", "create", "statInfo"))
  /\ pc' = "l10"
  /\ UNCHANGED <<argc, argv, filePath, mapIrInfo, vecTempArray, calls,
                 status, stdout, stderr, retval, exitCode>>

\* line 10: an empty std::map
DeclMapIrInfo ==
  /\ pc = "l10"
  /\ mapIrInfo' = {}
  /\ trace' = Append(trace, Ev("driver", "create", "mapIrInfo"))
  /\ pc' = "l11"
  /\ UNCHANGED <<argc, argv, filePath, statInfo, vecTempArray, calls,
                 status, stdout, stderr, retval, exitCode>>

\* line 11: an empty std::vector
DeclVecTempArray ==
  /\ pc = "l11"
  /\ vecTempArray' = <<>>
  /\ trace' = Append(trace, Ev("driver", "create", "vecTempArray"))
  /\ pc' = "l12"
  /\ UNCHANGED <<argc, argv, filePath, statInfo, mapIrInfo, calls,
                 status, stdout, stderr, retval, exitCode>>

\* variant of the call: width and height passed in the other order
CallParser_swapped ==
  /\ pc = "l12"
  /\ calls' = Append(calls, [path |-> filePath, width |-> HEIGHT,
                             height |-> WIDTH])
  /\ trace' = Append(trace, Ev("driver", "call", "GetIrPhotoTempInfo"))
  /\ pc' = "in_call"
  /\ UNCHANGED <<argc, argv, filePath, statInfo, mapIrInfo, vecTempArray,
                 status, stdout, stderr, retval, exitCode>>

\* line 12, the call: GetIrPhotoTempInfo(filePath, 640, 512, ...)
CallParser ==
  /\ pc = "l12"
  /\ calls' = Append(calls, [path |-> filePath, width |-> WIDTH,
                             height |-> HEIGHT])
  /\ trace' = Append(trace, Ev("driver", "call", "GetIrPhotoTempInfo"))
  /\ pc' = "in_call"
  /\ UNCHANGED <<argc, argv, filePath, statInfo, mapIrInfo, vecTempArray,
                 status, stdout, stderr, retval, exitCode>>

(* ------------------- parser: interface contract ------------------------ *)

\* the arguments of the call in progress
CurCall == calls[Len(calls)]

\* success: outStats overwritten, outMetadata cleared and repopulated,
\* outField resized to height rows of width samples, status zero
ParserSucceed ==
  /\ pc = "in_call"
  /\ statInfo' = [tag |-> "stats", bits |-> 0]
  /\ \E m \in SUBSET MetaKeys : mapIrInfo' = m
  /\ vecTempArray' = Field(CurCall.height, CurCall.width)
  /\ status' = <<0>>
  /\ trace' = trace \o <<Ev("parser", "write", "statInfo"),
                         Ev("parser", "write", "mapIrInfo"),
                         Ev("parser", "write", "vecTempArray")>>
  /\ pc' = "parser_done"
  /\ UNCHANGED <<argc, argv, filePath, calls, stdout, stderr, retval,
                 exitCode>>

\* what a failed call may leave in outField: nothing, a few rows, all rows
FailedFields(h, w) == {Field(k, w) : k \in 0..MaxGarbage} \cup {Field(h, w)}

\* failure: a non-zero status; the contents of the receivers are unspecified
ParserFail ==
  /\ pc = "in_call"
  /\ \E s \in (-MaxStatus..MaxStatus) \ {0} : status' = <<s>>
  /\ \/ statInfo' = statInfo
     \/ statInfo' = [tag |-> "stats", bits |-> 0]
  /\ \E m \in SUBSET MetaKeys : mapIrInfo' = m
  /\ \E f \in FailedFields(CurCall.height, CurCall.width) : vecTempArray' = f
  /\ trace' = trace \o <<Ev("parser", "write", "statInfo"),
                         Ev("parser", "write", "mapIrInfo"),
                         Ev("parser", "write", "vecTempArray")>>
  /\ pc' = "parser_done"
  /\ UNCHANGED <<argc, argv, filePath, calls, stdout, stderr, retval,
                 exitCode>>

\* the call returns its status to line 12
ParserReturn ==
  /\ pc = "parser_done"
  /\ trace' = Append(trace, Ev("parser", "return", "GetIrPhotoTempInfo"))
  /\ pc' = "l12_test"
  /\ UNCHANGED <<argc, argv, filePath, statInfo, mapIrInfo, vecTempArray,
                 calls, status, stdout, stderr, retval, exitCode>>

(* ------------------------ driver, continued ---------------------------- *)

\* variant of the test: the status read as a truth value, if (<status>)
TestStatus_truthy ==
  /\ pc = "l12_test"
  /\ pc' = IF status[1] # 0 THEN "l14" ELSE "l18"
  /\ UNCHANGED <<argc, argv, filePath, statInfo, mapIrInfo, vecTempArray,
                 calls, status, stdout, stderr, retval, exitCode, trace>>

\* variant of the test: a failed parse is tried again
TestStatus_retry ==
  /\ pc = "l12_test"
  /\ pc' = IF 0 = status[1] THEN "l14" ELSE "l12"
  /\ UNCHANGED <<argc, argv, filePath, statInfo, mapIrInfo, vecTempArray,
                 calls, status, stdout, stderr, retval, exitCode, trace>>

\* variant of the test: the driver spins while the status is non-zero
TestStatus_wait ==
  /\ pc = "l12_test"
  /\ pc' = IF 0 = status[1] THEN "l14" ELSE "l12_test"
  /\ UNCHANGED <<argc, argv, filePath, statInfo, mapIrInfo, vecTempArray,
                 calls, status, stdout, stderr, retval, exitCode, trace>>

\* line 12, the test: if (0 == <status>)
TestStatus ==
  /\ pc = "l12_test"
  /\ pc' = IF 0 = status[1] THEN "l14" ELSE "l18"
  /\ UNCHANGED <<argc, argv, filePath, statInfo, mapIrInfo, vecTempArray,
                 calls, status, stdout, stderr, retval, exitCode, trace>>

\* variant of line 14 without the else: control falls into line 18
PrintOk_fallthrough ==
  /\ pc = "l14"
  /\ stdout' = stdout \o printf(OK_FMT)
  /\ trace' = Append(trace, Ev("driver", "print", "stdout"))
  /\ pc' = "l18"
  /\ UNCHANGED <<argc, argv, filePath, statInfo, mapIrInfo, vecTempArray,
                 calls, status, stderr, retval, exitCode>>

\* line 14
PrintOk ==
  /\ pc = "l14"
  /\ stdout' = stdout \o printf(OK_FMT)
  /\ trace' = Append(trace, Ev("driver", "print", "stdout"))
  /\ pc' = "l20"
  /\ UNCHANGED <<argc, argv, filePath, statInfo, mapIrInfo, vecTempArray,
                 calls, status, stderr, retval, exitCode>>

\* variant of line 18 that also reports the number of rows decoded
PrintFail_reads ==
  /\ pc = "l18"
  /\ stdout' = stdout \o printf(FAIL_FMT)
  /\ trace' = trace \o <<Ev("driver", "read", "vecTempArray"),
                         Ev("driver", "print", "stdout")>>
  /\ pc' = "l20"
  /\ UNCHANGED <<argc, argv, filePath, statInfo, mapIrInfo, vecTempArray,
                 calls, status, stderr, retval, exitCode>>

\* variant of line 18 that empties the field after a failed parse
PrintFail_clears ==
  /\ pc = "l18"
  /\ stdout' = stdout \o printf(FAIL_FMT)
  /\ vecTempArray' = <<>>
  /\ trace' = trace \o <<Ev("driver", "write", "vecTempArray"),
                         Ev("driver", "print", "stdout")>>
  /\ pc' = "l20"
  /\ UNCHANGED <<argc, argv, filePath, statInfo, mapIrInfo,
                 calls, status, stderr, retval, exitCode>>

\* variant of line 18 that flags negative statuses on standard error
PrintFail_diag ==
  /\ pc = "l18"
  /\ stdout' = stdout \o printf(FAIL_FMT)
  /\ stderr' = IF status[1] < 0 THEN stderr \o <<"E">> ELSE stderr
  /\ trace' = Append(trace, Ev("driver", "print", "stdout"))
  /\ pc' = "l20"
  /\ UNCHANGED <<argc, argv, filePath, statInfo, mapIrInfo, vecTempArray,
                 calls, status, retval, exitCode>>

\* line 18
PrintFail ==
  /\ pc = "l18"
  /\ stdout' = stdout \o printf(FAIL_FMT)
  /\ trace' = Append(trace, Ev("driver", "print", "stdout"))
  /\ pc' = "l20"
  /\ UNCHANGED <<argc, argv, filePath, statInfo, mapIrInfo, vecTempArray,
                 calls, status, stderr, retval, exitCode>>

\* variant of line 20: return <status>;
Return0_status ==
  /\ pc = "l20"
  /\ retval' = status
  /\ pc' = "l21"
  /\ UNCHANGED <<argc, argv, filePath, statInfo, mapIrInfo, vecTempArray,
                 calls, status, stdout, stderr, exitCode, trace>>

\* line 20: return 0;
Return0 ==
  /\ pc = "l20"
  /\ retval' = <<0>>
  /\ pc' = "l21"
  /\ UNCHANGED <<argc, argv, filePath, statInfo, mapIrInfo, vecTempArray,
                 calls, status, stdout, stderr, exitCode, trace>>

\* line 21: the closing brace destroys the locals in reverse order of
\* declaration, and the value returned by main becomes the exit code
ExitMain ==
  /\ pc = "l21"
  /\ vecTempArray' = <<>>
  /\ mapIrInfo' = {}
  /\ statInfo' = [tag |-> "none", bits |-> 0]
  /\ trace' = trace \o <<Ev("driver", "destroy", "vecTempArray"),
                         Ev("driver", "destroy", "mapIrInfo"),
                         Ev("driver", "destroy", "statInfo"),
                         Ev("driver", "exit", "process")>>
  /\ exitCode' = retval
  /\ pc' = "exited"
  /\ UNCHANGED <<argc, argv, filePath, calls, status, stdout, stderr,
                 retval>>

(* ------------------------- specifications ------------------------------ *)

\* the steps main takes by itself
DriverStep ==
  \/ AssignFilePath
  \/ DeclStatInfo
  \/ DeclMapIrInfo
  \/ DeclVecTempArray
  \/ CallParser
  \/ TestStatus
  \/ PrintOk
  \/ PrintFail
  \/ Return0
  \/ ExitMain

\* the steps of the library
ParserStep ==
  \/ ParserSucceed
  \/ ParserFail
  \/ ParserReturn

Next == DriverStep \/ ParserStep

Spec == Init /\ [][Next]_vars

\* main is straight-line code on one thread: each of its statements runs
\* once control reaches it.  Nothing is assumed of the library.
FairSpec == Spec /\ WF_vars(DriverStep)

(* ------------------------------ claims --------------------------------- *)

\* the two lines of the specification, character by character
ParseOkLine == <<"p","a","r","s","e"," ","o","k",".","\r","\n">>
ParseFailLine == <<"p","a","r","s","e"," ","f","a","i","l",".","\r","\n">>

\* control has passed the printf of the branch taken
Printed == pc \in {"l20", "l21", "exited"}
\* the call has returned to main
Returned == pc \in {"l12_test", "l14", "l18", "l20", "l21", "exited"}
StatusZero == status # <<>> /\ status[1] = 0
StatusNonZero == status # <<>> /\ status[1] # 0

\* positions of the trace holding an event of the given kind
PosOf(op) == {i \in 1..Len(trace) : trace[i].op = op}
PosOfObj(op, obj) == {i \in PosOf(op) : trace[i].obj = obj}

\* C1: whenever the parser returned 0, standard output holds nothing before
\* the printf and exactly "parse ok." CR LF after it; "parse fail." is never
\* there.
C1_SuccessToken ==
  StatusZero =>
    /\ stdout = (IF Printed THEN ParseOkLine ELSE <<>>)
    /\ stdout # ParseFailLine

C1_Witness == pc = "exited" /\ StatusZero /\ stdout = ParseOkLine

\* C2: whenever the parser returned a non-zero status, standard output holds
\* nothing before the printf and exactly "parse fail." CR LF after it, and no
\* event after the return of the call is a read of a receiver by the driver.
C2_FailureSilence ==
  StatusNonZero =>
    /\ stdout = (IF Printed THEN ParseFailLine ELSE <<>>)
    /\ \A i \in PosOf("read") :
         ~(trace[i].obj \in Receivers /\ \E r \in PosOf("return") : r < i)

C2_Witness ==
  /\ pc = "exited" /\ StatusNonZero /\ stdout = ParseFailLine
  /\ PosOf("return") # {}
  /\ vecTempArray = <<>>

\* number of line feeds in a character sequence
Lines(out) == Cardinality({i \in 1..Len(out) : out[i] = "\n"})

\* C3: at exit standard output is one of the two messages, ends in CR LF and
\* holds one line; at no time does it hold more than one line.
C3_ExactlyOneLine ==
  /\ Lines(stdout) <= 1
  /\ pc = "exited" =>
       /\ stdout \in {ParseOkLine, ParseFailLine}
       /\ Lines(stdout) = 1
       /\ Len(stdout) >= 2
       /\ stdout[Len(stdout) - 1] = "\r"
       /\ stdout[Len(stdout)] = "\n"

C3_Witness == pc = "exited" /\ Lines(stdout) = 1 /\ Len(trace) > 0

\* C4: the exit code is 0 whatever the status was.
C4_ExitCodeZero == pc = "exited" => exitCode = <<0>>

C4_Witness == pc = "exited" /\ StatusNonZero /\ exitCode = <<0>>

\* the one call main makes
TheCall == [path |-> "../test/IRX_0001_south.jpg", width |-> 640,
            height |-> 512]

\* C5: the parser is invoked at most once, once the call is reached exactly
\* once, and with the constant path, 640 and 512; a non-zero status is not
\* followed by a second call.
C5_CalledOnce ==
  /\ Len(calls) <= 1
  /\ Returned => calls = <<TheCall>>
  /\ pc \in {"in_call", "parser_done"} => calls = <<TheCall>>
  /\ Cardinality(PosOf("call")) = Len(calls)

C5_Witness == pc = "exited" /\ StatusNonZero /\ calls = <<TheCall>>

\* what a run shows to the outside
Observable == [args |-> calls, out |-> stdout, code |-> exitCode]
\* the same, as a function of the status alone
ObservableOf(s) ==
  [args |-> <<TheCall>>,
   out |-> IF s = 0 THEN ParseOkLine ELSE ParseFailLine,
   code |-> <<0>>]

\* C6: at exit the arguments of the call, the output and the exit code are
\* a function of the status alone, so two runs that differ in argc/argv and
\* agree on the status agree on all three.
C6_ArgsIgnored == pc = "exited" => Observable = ObservableOf(status[1])

C6_Witness == pc = "exited" /\ argc > 1 /\ argv[2] = "other.jpg"

TraceOrdered ==
  /\ \A c \in PosOf("call") : \A o \in Receivers :
       \E k \in PosOfObj("create", o) : k < c
  /\ \A w \in PosOf("write") :
       /\ trace[w].actor = "parser"
       /\ \E c \in PosOf("call") : c < w
       /\ \A r \in PosOf("return") : w < r
  /\ \A p \in PosOf("print") : \E r \in PosOf("return") : r < p
  /\ \A x \in PosOf("exit") : \E p \in PosOf("print") : p < x

\* the steps in which a receiver may change: its declaration, the body of
\* the parser, its destruction
ReceiversChangeOnlyIn ==
  <<statInfo, mapIrInfo, vecTempArray>>' # <<statInfo, mapIrInfo, vecTempArray>>
    => pc \in {"l9", "l10", "l11", "in_call", "l21"}

\* C8: receivers are created before the call, only the parser writes them
\* and only during the call, the verdict is printed after the return, and
\* the process exits after the verdict.
C8_EventOrder == [][TraceOrdered' /\ ReceiversChangeOnlyIn]_vars

C8_Witness ==
  /\ pc = "exited"
  /\ PosOf("write") # {} /\ PosOf("print") # {} /\ PosOf("exit") # {}

\* C9: every non-zero status gives the same observable behaviour: the
\* "parse fail." line, nothing on standard error, exit code 0.
C9_FailuresAlike ==
  (pc = "exited" /\ StatusNonZero) =>
     /\ stdout = ParseFailLine
     /\ stderr = <<>>
     /\ exitCode = <<0>>

C9_Witness == pc = "exited" /\ StatusNonZero /\ status[1] < 0 /\ stderr = <<>>

\* C10: once the call has returned, the process reaches exit.
C10_Terminates == (pc = "l12_test") ~> (pc = "exited")

C10_Witness == pc = "exited" /\ status # <<>> /\ retval = <<0>>

====
